---- MODULE Spec2Model ----
(***************************************************************************)
(* LoRA fine-tuning of Stable Video Diffusion (src/train_lora.py).         *)
(*                                                                         *)
(* Spec      the run of main() on every process of the launch: model       *)
(*           setup, the epoch/batch loop with gradient accumulation,       *)
(*           checkpoints, validation samples, and the final save.          *)
(* SpecStep  the data flow of the training steps of one process: the       *)
(*           EDM preconditioning, the two denoiser passes and the loss.    *)
(***************************************************************************)
EXTENDS Integers, Sequences, FiniteSets, TLC

\* ------------------------------------------------------------------ bounds
MaxBatches == 2
MaxGradAccum == 2
MaxTrainSteps == 3
MaxCheckpointingSteps == 2
MaxValidationSteps == 2
MaxResumeStep == 1

\* --------------------------------------------------------------- processes
\* The processes of one accelerate launch; exactly one is the main process.
Procs == {"main", "worker"}

is_main_process(p) == p = "main"

\* accelerator.device
AcceleratorDevice == "cuda"

\* ------------------------------------------------------------ the models
\* A module is the path of its name; a parameter is a weight of a module,
\* with its requires_grad flag.
VaeModules == {<<"encoder", "conv_in">>, <<"decoder", "to_q">>}
ImageEncoderModules == {<<"self_attn", "q_proj">>, <<"self_attn", "v_proj">>}
UnetModules ==
    {<<"conv_in">>, <<"attn1", "to_q">>, <<"attn1", "to_k">>,
     <<"attn1", "to_v">>, <<"attn1", "to_out">>, <<"ff", "proj">>}

\* The attention blocks of the denoiser (diffusers' Attention: attn1, attn2).
IsAttentionProjection(module) == Len(module) = 2 /\ module[1] \in {"attn1", "attn2"}

Param(model, module, name, rg) ==
    [model |-> model, module |-> module, name |-> name, requires_grad |-> rg]

\* from_pretrained: every weight is a torch Parameter, requires_grad True.
load_primary_models ==
    {Param("vae", m, "weight", TRUE) : m \in VaeModules}
        \cup {Param("image_encoder", m, "weight", TRUE) : m \in ImageEncoderModules}
        \cup {Param("unet", m, "weight", TRUE) : m \in UnetModules}

\* Variant: only the denoiser is frozen.
freeze_unet_only(params, models_to_freeze) ==
    {IF q.model = "unet" THEN [q EXCEPT !.requires_grad = FALSE] ELSE q : q \in params}

\* model.requires_grad_(False) for every model of the list.
freeze_models(params, models_to_freeze) ==
    {IF q.model \in models_to_freeze THEN [q EXCEPT !.requires_grad = FALSE] ELSE q :
        q \in params}

UNET_TARGET_MODULES == {"to_q", "to_v", "query", "value"}

IsLora(q) == q.name \in {"lora_A.weight", "lora_B.weight"}

\* get_peft_model(unet, LoraConfig(target_modules=UNET_TARGET_MODULES)): every
\* module of the denoiser whose name ends in a target gets the two low-rank
\* matrices, trainable; every other parameter of the denoiser is frozen.
get_peft_model(params) ==
    LET targets == {q \in params : q.model = "unet"
                        /\ q.module[Len(q.module)] \in UNET_TARGET_MODULES}
        adapters == UNION {{Param("unet", q.module, "lora_A.weight", TRUE),
                            Param("unet", q.module, "lora_B.weight", TRUE)} : q \in targets}
    IN  {IF q.model = "unet" THEN [q EXCEPT !.requires_grad = FALSE] ELSE q : q \in params}
            \cup adapters

\* The adapter parameters of the denoiser (the names that hold "lora").
only_lora_parameters(params) == {q \in params : q.model = "unet" /\ IsLora(q)}

\* Variant: the parameters of every model.
all_model_parameters(params) == params

\* unet.parameters(): every parameter of the wrapped denoiser, frozen or not.
unet_parameters(params) == {q \in params : q.model = "unet"}

\* --------------------------------------------------------------- precision
MixedPrecisions == {"no", "fp16", "bf16"}

is_mixed_precision(mixed_precision) ==
    IF mixed_precision = "fp16" THEN "float16"
    ELSE IF mixed_precision = "bf16" THEN "bfloat16"
    ELSE "float32"

\* What from_pretrained and the constructors leave: float32 weights on the cpu.
LoadedPlacement ==
    [dtype |-> [unet |-> "float32", image_encoder |-> "float32", vae |-> "float32"],
     device |-> [unet |-> "cpu", image_encoder |-> "cpu", vae |-> "cpu"]]

\* model.to(device, dtype=dtype)
To(pl, model, device, dt) ==
    [dtype |-> [pl.dtype EXCEPT ![model] = dt],
     device |-> [pl.device EXCEPT ![model] = device]]

\* accelerator.prepare(unet, ..., image_encoder): the models move to the device.
accelerator_prepare(pl) ==
    [pl EXCEPT !.device = [@ EXCEPT !.unet = AcceleratorDevice,
                                    !.image_encoder = AcceleratorDevice]]

cast_to_gpu_and_type(pl, weight_dtype) ==
    To(To(pl, "image_encoder", AcceleratorDevice, weight_dtype),
       "vae", AcceleratorDevice, weight_dtype)

\* ------------------------------------------------------------- the run
\* The arguments of main() and the facts of the launch that the loop reads.
Configs ==
    {c \in [procs : {{"main"}, Procs},
            num_batches : 1..MaxBatches,
            gradient_accumulation_steps : 1..MaxGradAccum,
            max_train_steps : 0..MaxTrainSteps,
            checkpointing_steps : 1..MaxCheckpointingSteps,
            validation_steps : 1..MaxValidationSteps,
            sample_preview : BOOLEAN,
            resume_from_checkpoint : BOOLEAN,
            resume_step : 0..MaxResumeStep] :
        ~c.resume_from_checkpoint => c.resume_step = 0}

VARIABLES
    cfg,             \* the configuration of the run
    pc,              \* where each process is in main()
    epoch,           \* the epoch loop's variable
    step,            \* the index of the next batch of the dataloader
    acc_step,        \* accelerator.step, the accumulation counter
    sync_gradients,  \* accelerator.sync_gradients
    global_step,     \* the optimization steps counted
    ngather,         \* the collectives (accelerator.gather) a process has entered
    checkpoints,     \* the global steps of the calls save_pipe(is_checkpoint=True)
    samples,         \* the global steps of the validation videos generated
    final_saves      \* the calls save_pipe(is_checkpoint=False)

loopvars == <<cfg, pc, epoch, step, acc_step, sync_gradients, global_step, ngather,
              checkpoints, samples, final_saves>>

\* The state of the training steps of one process (SpecStep).
VARIABLES
    scfg,             \* mixed_precision, vae.config.force_upcast, checkpointing_steps
    phase,            \* where the process is
    params,           \* the parameters of vae, image_encoder and unet
    optimizer_params, \* what the optimizer was constructed over
    placement,        \* dtype and device of unet, image_encoder and vae
    fps,              \* the local fps of main()
    loc,              \* the values computed by the current training step
    optimizer_steps,  \* calls of optimizer.step() that returned
    scheduler_steps,  \* calls of lr_scheduler.step() that returned
    nbatches,         \* batches taken from the dataloader
    nsteps,           \* global_step
    saved             \* the calls of save_pipe: step, kind, dtype of the pipeline

stepvars == <<scfg, phase, params, optimizer_params, placement, fps, loc,
              optimizer_steps, scheduler_steps, nbatches, nsteps, saved>>

vars == <<loopvars, stepvars>>

CeilDiv(a, b) == (a + b - 1) \div b

\* math.ceil(len(train_dataloader) / gradient_accumulation_steps)
num_update_steps_per_epoch == CeilDiv(cfg.num_batches, cfg.gradient_accumulation_steps)

\* math.ceil(max_train_steps / num_update_steps_per_epoch)
num_train_epochs == CeilDiv(cfg.max_train_steps, num_update_steps_per_epoch)

\* Variant: no sample at the first step.
should_sample_without_first(gs, validation_steps, sample_preview) ==
    gs % validation_steps = 0 /\ sample_preview

should_sample(gs, validation_steps, sample_preview) ==
    (gs % validation_steps = 0 \/ gs = 1) /\ sample_preview

\* Variant: a save at every counted step.
should_checkpoint_always(gs, checkpointing_steps) == TRUE

\* if global_step % checkpointing_steps == 0
should_checkpoint(gs, checkpointing_steps) == gs % checkpointing_steps = 0

\* if resume_from_checkpoint and epoch == first_epoch and step < resume_step
skips_batch(p) ==
    cfg.resume_from_checkpoint /\ epoch[p] = 0 /\ step[p] < cfg.resume_step

\* Accelerator._do_sync on entering accelerator.accumulate(unet): the last
\* batch of the dataloader always synchronises and restarts the count.
do_sync_step(p) == IF step[p] = cfg.num_batches - 1 THEN 0 ELSE acc_step[p] + 1

\* Variant: every batch synchronises, whatever the accumulation.
do_sync_gradients_every_batch(p) == TRUE

do_sync_gradients(p) ==
    step[p] = cfg.num_batches - 1
        \/ do_sync_step(p) % cfg.gradient_accumulation_steps = 0

LoopInit ==
    /\ cfg \in Configs
    /\ pc = [p \in Procs |-> IF p \in cfg.procs THEN "start" ELSE "absent"]
    /\ epoch = [p \in Procs |-> 0]
    /\ step = [p \in Procs |-> 0]
    /\ acc_step = [p \in Procs |-> 0]
    /\ sync_gradients = [p \in Procs |-> TRUE]
    /\ global_step = [p \in Procs |-> 0]
    /\ ngather = [p \in Procs |-> 0]
    /\ checkpoints = [p \in Procs |-> <<>>]
    /\ samples = [p \in Procs |-> <<>>]
    /\ final_saves = [p \in Procs |-> 0]

\* Lines 531-710: setup, global_step = 0, first_epoch = 0, and the head of
\* "for epoch in range(first_epoch, num_train_epochs)".
StartTraining(p) ==
    /\ pc[p] = "start"
    /\ pc' = [pc EXCEPT ![p] = IF num_train_epochs > 0 THEN "fetch" ELSE "wait"]
    /\ UNCHANGED <<cfg, epoch, step, acc_step, sync_gradients, global_step, ngather,
                   checkpoints, samples, final_saves>>
    /\ UNCHANGED stepvars

\* The resumed run skips the batch ("continue" at line 718).
SkipBatch(p) ==
    /\ pc[p] = "fetch"
    /\ step[p] < cfg.num_batches
    /\ skips_batch(p)
    /\ step' = [step EXCEPT ![p] = @ + 1]
    /\ UNCHANGED <<cfg, pc, epoch, acc_step, sync_gradients, global_step, ngather,
                   checkpoints, samples, final_saves>>
    /\ UNCHANGED stepvars

\* Lines 720-833: the batch enters accelerator.accumulate and the forward
\* computation runs up to the collective of line 836.
TrainForward(p) ==
    /\ pc[p] = "fetch"
    /\ step[p] < cfg.num_batches
    /\ ~skips_batch(p)
    /\ acc_step' = [acc_step EXCEPT ![p] = do_sync_step(p)]
    /\ sync_gradients' = [sync_gradients EXCEPT ![p] = do_sync_gradients(p)]
    /\ ngather' = [ngather EXCEPT ![p] = @ + 1]
    /\ pc' = [pc EXCEPT ![p] = "gather"]
    /\ UNCHANGED <<cfg, epoch, step, global_step, checkpoints, samples, final_saves>>
    /\ UNCHANGED stepvars

\* The epoch loop's step: the next epoch, or the end of the loop.
next_epoch_pc(p) == IF epoch[p] + 1 < num_train_epochs THEN "fetch" ELSE "wait"

\* The dataloader is exhausted.
EpochEnd(p) ==
    /\ pc[p] = "fetch"
    /\ step[p] = cfg.num_batches
    /\ epoch' = [epoch EXCEPT ![p] = @ + 1]
    /\ step' = [step EXCEPT ![p] = 0]
    /\ pc' = [pc EXCEPT ![p] = next_epoch_pc(p)]
    /\ UNCHANGED <<cfg, acc_step, sync_gradients, global_step, ngather,
                   checkpoints, samples, final_saves>>
    /\ UNCHANGED stepvars

\* accelerator.gather (line 836) returns once every process has entered it.
Gather(p) ==
    /\ pc[p] = "gather"
    /\ \A q \in cfg.procs : ngather[q] >= ngather[p]
    /\ pc' = [pc EXCEPT ![p] = "backward"]
    /\ UNCHANGED <<cfg, epoch, step, acc_step, sync_gradients, global_step, ngather,
                   checkpoints, samples, final_saves>>
    /\ UNCHANGED stepvars

\* Lines 840-852 without an exception.
Backward(p) ==
    /\ pc[p] = "backward"
    /\ pc' = [pc EXCEPT ![p] = "post"]
    /\ UNCHANGED <<cfg, epoch, step, acc_step, sync_gradients, global_step, ngather,
                   checkpoints, samples, final_saves>>
    /\ UNCHANGED stepvars

\* A variant in which the except block falls through to the step count of
\* lines 859-861 before it takes the next batch.
BackwardFailsCounted(p) ==
    /\ pc[p] = "backward"
    /\ step' = [step EXCEPT ![p] = @ + 1]
    /\ global_step' = [global_step EXCEPT
                          ![p] = IF sync_gradients[p] THEN @ + 1 ELSE @]
    /\ pc' = [pc EXCEPT ![p] = "fetch"]
    /\ UNCHANGED <<cfg, epoch, acc_step, sync_gradients, ngather,
                   checkpoints, samples, final_saves>>
    /\ UNCHANGED stepvars

\* Lines 854-856: an exception in the try block; "continue" takes the next batch.
BackwardFails(p) ==
    /\ pc[p] = "backward"
    /\ step' = [step EXCEPT ![p] = @ + 1]
    /\ pc' = [pc EXCEPT ![p] = "fetch"]
    /\ UNCHANGED <<cfg, epoch, acc_step, sync_gradients, global_step, ngather,
                   checkpoints, samples, final_saves>>
    /\ UNCHANGED stepvars

\* Line 859-861: the step is counted when the gradients were synchronised.
counted_global_step(p) == IF sync_gradients[p] THEN global_step[p] + 1 ELSE global_step[p]

saves_checkpoint(p) ==
    sync_gradients[p] /\ should_checkpoint(counted_global_step(p), cfg.checkpointing_steps)

samples_now(p) ==
    sync_gradients[p]
        /\ should_sample(counted_global_step(p), cfg.validation_steps, cfg.sample_preview)

\* Lines 859-918 on a process that gets through them.  out_file (line 911) is
\* bound only on the main process.
PostStep(p) ==
    /\ pc[p] = "post"
    /\ ~(samples_now(p) /\ ~is_main_process(p))
    /\ global_step' = [global_step EXCEPT ![p] = counted_global_step(p)]
    /\ checkpoints' = [checkpoints EXCEPT ![p] =
            IF saves_checkpoint(p) THEN Append(@, counted_global_step(p)) ELSE @]
    /\ samples' = [samples EXCEPT ![p] =
            IF samples_now(p) THEN Append(@, counted_global_step(p)) ELSE @]
    /\ IF counted_global_step(p) >= cfg.max_train_steps
         THEN \* break: the batch loop ends, the epoch loop goes on
              /\ epoch' = [epoch EXCEPT ![p] = @ + 1]
              /\ step' = [step EXCEPT ![p] = 0]
              /\ pc' = [pc EXCEPT ![p] = next_epoch_pc(p)]
         ELSE /\ step' = [step EXCEPT ![p] = @ + 1]
              /\ pc' = [pc EXCEPT ![p] = "fetch"]
              /\ UNCHANGED epoch
    /\ UNCHANGED <<cfg, acc_step, sync_gradients, ngather, final_saves>>
    /\ UNCHANGED stepvars

\* Lines 859-911 on a process that is not the main one, at a validation step:
\* the f-string of line 911 reads out_file, which was never assigned there.
PostStepUnbound(p) ==
    /\ pc[p] = "post"
    /\ samples_now(p) /\ ~is_main_process(p)
    /\ global_step' = [global_step EXCEPT ![p] = counted_global_step(p)]
    /\ checkpoints' = [checkpoints EXCEPT ![p] =
            IF saves_checkpoint(p) THEN Append(@, counted_global_step(p)) ELSE @]
    /\ pc' = [pc EXCEPT ![p] = "crashed"]
    /\ UNCHANGED <<cfg, epoch, step, acc_step, sync_gradients, ngather, samples,
                   final_saves>>
    /\ UNCHANGED stepvars

\* accelerator.wait_for_everyone() (line 921): a barrier of all processes.
WaitForEveryone(p) ==
    /\ pc[p] = "wait"
    /\ \A q \in cfg.procs : pc[q] \in {"wait", "final_save", "end_training", "done"}
    /\ pc' = [pc EXCEPT ![p] = IF is_main_process(p) THEN "final_save" ELSE "end_training"]
    /\ UNCHANGED <<cfg, epoch, step, acc_step, sync_gradients, global_step, ngather,
                   checkpoints, samples, final_saves>>
    /\ UNCHANGED stepvars

\* Lines 922-933.
FinalSave(p) ==
    /\ pc[p] = "final_save"
    /\ final_saves' = [final_saves EXCEPT ![p] = @ + 1]
    /\ pc' = [pc EXCEPT ![p] = "end_training"]
    /\ UNCHANGED <<cfg, epoch, step, acc_step, sync_gradients, global_step, ngather,
                   checkpoints, samples>>
    /\ UNCHANGED stepvars

\* Line 934.
EndTraining(p) ==
    /\ pc[p] = "end_training"
    /\ pc' = [pc EXCEPT ![p] = "done"]
    /\ UNCHANGED <<cfg, epoch, step, acc_step, sync_gradients, global_step, ngather,
                   checkpoints, samples, final_saves>>
    /\ UNCHANGED stepvars

LoopNext ==
    \E p \in Procs :
        \/ StartTraining(p)
        \/ SkipBatch(p)
        \/ TrainForward(p)
        \/ EpochEnd(p)
        \/ Gather(p)
        \/ Backward(p)
        \/ BackwardFails(p)
        \/ PostStep(p)
        \/ PostStepUnbound(p)
        \/ WaitForEveryone(p)
        \/ FinalSave(p)
        \/ EndTraining(p)

\* ------------------------------------------------------- tensor arithmetic
\* Tensors are modelled by one element, an exact rational <<numerator,
\* denominator>> in lowest terms with a positive denominator.
RECURSIVE GCD(_, _)
GCD(a, b) == IF b = 0 THEN a ELSE GCD(b, a % b)

Abs(n) == IF n < 0 THEN -n ELSE n

Rat(n, d) ==
    LET s == IF d < 0 THEN -1 ELSE 1
        g == GCD(Abs(n), Abs(d))
    IN  <<(s * n) \div g, (s * d) \div g>>

FromInt(n) == <<n, 1>>
RAdd(a, b) == Rat(a[1] * b[2] + b[1] * a[2], a[2] * b[2])
RSub(a, b) == Rat(a[1] * b[2] - b[1] * a[2], a[2] * b[2])
RMul(a, b) == Rat(a[1] * b[1], a[2] * b[2])
RDiv(a, b) == Rat(a[1] * b[2], a[2] * b[1])
RNeg(a) == <<-a[1], a[2]>>
RSquare(a) == RMul(a, a)

\* x ** 0.5, exact: the noise levels drawn below make sigma^2 + 1 a square.
ISqrt(n) == CHOOSE r \in 0..n : r * r = n
RSqrt(a) == <<ISqrt(a[1]), ISqrt(a[2])>>

\* x.log(): the logarithm stays a term.
Log(a) == [log_of |-> a, over |-> 1]
LogDiv(t, k) == [t EXCEPT !.over = @ * k]

\* No value yet.
NoneQ == <<0, 0>>
NoneLog == [log_of |-> NoneQ, over |-> 0]

\* ------------------------------------------------ the training step's data
MaxStepBatches == 3

\* fps = 7 (line 655), motion_bucket_id = 127 (line 658),
\* noise_aug_strength = 0.02 (line 657).
InitialFps == 7
motion_bucket_id == 127
noise_aug_strength == Rat(2, 100)

\* What the encoders, the random generators and the denoiser may return.
EmbeddingValues == {FromInt(1), FromInt(2)}
ImageLatentValues == {FromInt(3)}
LatentValues == {FromInt(0), FromInt(1)}
NoiseValues == {FromInt(-1), FromInt(1)}
SigmaValues == {Rat(3, 4), Rat(4, 3)}
ModelOutputValues == {FromInt(0), FromInt(1)}

StepConfigs ==
    [mixed_precision : MixedPrecisions,
     force_upcast : BOOLEAN,
     checkpointing_steps : 1..MaxCheckpointingSteps]

NoLocals ==
    [image_embeddings |-> NoneQ, negative_image_embeddings |-> NoneQ,
     image_latents |-> NoneQ, added_time_ids |-> <<>>, latents |-> NoneQ,
     sigma |-> NoneQ, c_skip |-> NoneQ, c_out |-> NoneQ, c_in |-> NoneQ,
     c_noise |-> NoneLog, loss_weight |-> NoneQ, noisy_latents |-> NoneQ,
     input_latents |-> <<>>, calls |-> <<>>, losses |-> <<>>, loss |-> NoneQ]

\* Variant: the scheduler steps before the optimizer.
next_phase_scheduler_first(ph) ==
    CASE ph = "batch" -> "encode_image"
      [] ph = "encode_image" -> "encode_image_latents"
      [] ph = "encode_image_latents" -> "time_ids"
      [] ph = "time_ids" -> "encode_video"
      [] ph = "encode_video" -> "sample_sigma"
      [] ph = "sample_sigma" -> "noise"
      [] ph = "noise" -> "pass"
      [] ph = "pass" -> "loss"
      [] ph = "loss" -> "backward"
      [] ph = "backward" -> "scheduler_step"
      [] ph = "scheduler_step" -> "optimizer_step"
      [] ph = "optimizer_step" -> "count"
      [] ph = "count" -> "checkpoint"
      [] ph = "checkpoint" -> "batch"

\* The order of lines 720-876 of one batch.
next_phase(ph) ==
    CASE ph = "batch" -> "encode_image"
      [] ph = "encode_image" -> "encode_image_latents"
      [] ph = "encode_image_latents" -> "time_ids"
      [] ph = "time_ids" -> "encode_video"
      [] ph = "encode_video" -> "sample_sigma"
      [] ph = "sample_sigma" -> "noise"
      [] ph = "noise" -> "pass"
      [] ph = "pass" -> "loss"
      [] ph = "loss" -> "backward"
      [] ph = "backward" -> "optimizer_step"
      [] ph = "optimizer_step" -> "scheduler_step"
      [] ph = "scheduler_step" -> "count"
      [] ph = "count" -> "checkpoint"
      [] ph = "checkpoint" -> "batch"

\* Lines 750-759: the vae is upcast for the encoding and cast back.
vae_encode(pl, force_upcast) ==
    LET needs_upcasting == pl.dtype.vae = "float16" /\ force_upcast
        upcast == IF needs_upcasting THEN [pl EXCEPT !.dtype.vae = "float32"] ELSE pl
    IN  IF needs_upcasting THEN [upcast EXCEPT !.dtype.vae = "float16"] ELSE upcast

\* Variant: the vae is left out of models_to_cast_back.
save_pipe_without_vae(pl, is_checkpoint) ==
    LET u_dtype == pl.dtype.unet
        t_dtype == pl.dtype.image_encoder
        on_cpu == [pl EXCEPT !.device.unet = "cpu", !.device.image_encoder = "cpu"]
        as_pipeline == [on_cpu EXCEPT !.dtype.vae = "float32"]
        pipeline == [unet |-> "float32", image_encoder |-> "float32",
                     vae |-> as_pipeline.dtype.vae]
        cast_back == To(To(as_pipeline, "unet", AcceleratorDevice, u_dtype),
                        "image_encoder", AcceleratorDevice, t_dtype)
    IN  [placement |-> IF is_checkpoint THEN cast_back ELSE as_pipeline,
         pipeline |-> pipeline]

\* save_pipe: what it leaves of the three models, and the dtypes of the
\* pipeline it serializes.  unet.cpu() and image_encoder.cpu() move the
\* models themselves; the pipeline is built over copies of them and over the
\* vae itself, so .to(torch_dtype=float32) casts the vae in place.
save_pipe(pl, is_checkpoint) ==
    LET u_dtype == pl.dtype.unet
        t_dtype == pl.dtype.image_encoder
        v_dtype == pl.dtype.vae
        on_cpu == [pl EXCEPT !.device.unet = "cpu", !.device.image_encoder = "cpu"]
        as_pipeline == [on_cpu EXCEPT !.dtype.vae = "float32"]
        pipeline == [unet |-> "float32", image_encoder |-> "float32",
                     vae |-> as_pipeline.dtype.vae]
        cast_back == To(To(To(as_pipeline, "unet", AcceleratorDevice, u_dtype),
                           "image_encoder", AcceleratorDevice, t_dtype),
                        "vae", AcceleratorDevice, v_dtype)
    IN  [placement |-> IF is_checkpoint THEN cast_back ELSE as_pipeline,
         pipeline |-> pipeline]

get_add_time_ids(f, bucket, strength) == <<FromInt(f), FromInt(bucket), strength>>

\* Lines 805-809.
edm_c_skip(sigma) == RDiv(FromInt(1), RAdd(RSquare(sigma), FromInt(1)))

\* Variant: c_out without its sign.
edm_c_out_positive(sigma) == RDiv(sigma, RSqrt(RAdd(RSquare(sigma), FromInt(1))))

edm_c_out(sigma) == RDiv(RNeg(sigma), RSqrt(RAdd(RSquare(sigma), FromInt(1))))

edm_c_in(sigma) == RDiv(FromInt(1), RSqrt(RAdd(RSquare(sigma), FromInt(1))))

edm_c_noise(sigma) == LogDiv(Log(sigma), 4)

edm_loss_weight(sigma) == RDiv(RAdd(RSquare(sigma), FromInt(1)), RSquare(sigma))

\* Variant: both passes conditioned on the image.
encoder_hidden_states_always_image(i, negative_image_embeddings, image_embeddings) ==
    image_embeddings

\* negative_image_embeddings if i==0 else image_embeddings
encoder_hidden_states(i, negative_image_embeddings, image_embeddings) ==
    IF i = 0 THEN negative_image_embeddings ELSE image_embeddings

\* torch.zeros_like
zeros_like(x) == FromInt(0)

StepInit ==
    /\ scfg \in StepConfigs
    /\ phase = "load"
    /\ params = {}
    /\ optimizer_params = {}
    /\ placement = LoadedPlacement
    /\ fps = 0
    /\ loc = NoLocals
    /\ optimizer_steps = 0
    /\ scheduler_steps = 0
    /\ nbatches = 0
    /\ nsteps = 0
    /\ saved = <<>>

\* Line 555.
LoadModels ==
    /\ phase = "load"
    /\ params' = load_primary_models
    /\ phase' = "freeze"
    /\ UNCHANGED <<scfg, optimizer_params, placement, fps, loc, optimizer_steps,
                   scheduler_steps, nbatches, nsteps, saved>>
    /\ UNCHANGED loopvars

\* Line 558.
FreezeModels ==
    /\ phase = "freeze"
    /\ params' = freeze_models(params, {"vae", "image_encoder", "unet"})
    /\ phase' = "inject"
    /\ UNCHANGED <<scfg, optimizer_params, placement, fps, loc, optimizer_steps,
                   scheduler_steps, nbatches, nsteps, saved>>
    /\ UNCHANGED loopvars

\* Lines 593-605.
InjectAdapters ==
    /\ phase = "inject"
    /\ params' = get_peft_model(params)
    /\ phase' = "optimizer"
    /\ UNCHANGED <<scfg, optimizer_params, placement, fps, loc, optimizer_steps,
                   scheduler_steps, nbatches, nsteps, saved>>
    /\ UNCHANGED loopvars

\* Lines 607-613.
CreateOptimizer ==
    /\ phase = "optimizer"
    /\ optimizer_params' = unet_parameters(params)
    /\ phase' = "prepare"
    /\ UNCHANGED <<scfg, params, placement, fps, loc, optimizer_steps,
                   scheduler_steps, nbatches, nsteps, saved>>
    /\ UNCHANGED loopvars

\* Lines 640-667.
PrepareModels ==
    /\ phase = "prepare"
    /\ placement' = cast_to_gpu_and_type(accelerator_prepare(placement),
                                         is_mixed_precision(scfg.mixed_precision))
    /\ fps' = InitialFps
    /\ phase' = "batch"
    /\ UNCHANGED <<scfg, params, optimizer_params, loc, optimizer_steps,
                   scheduler_steps, nbatches, nsteps, saved>>
    /\ UNCHANGED loopvars

\* Line 713: the next batch.  The values of the batch before are dead: each
\* is assigned again before it is read.
TakeBatch ==
    /\ phase = "batch"
    /\ nbatches < MaxStepBatches
    /\ nbatches' = nbatches + 1
    /\ loc' = NoLocals
    /\ phase' = next_phase("batch")
    /\ UNCHANGED <<scfg, params, optimizer_params, placement, fps, optimizer_steps,
                   scheduler_steps, nsteps, saved>>
    /\ UNCHANGED loopvars

\* Lines 723-743.
EncodeImage ==
    /\ phase = "encode_image"
    /\ \E e \in EmbeddingValues : loc' = [loc EXCEPT !.image_embeddings = e]
    /\ fps' = fps - 1
    /\ phase' = next_phase("encode_image")
    /\ UNCHANGED <<scfg, params, optimizer_params, placement, optimizer_steps,
                   scheduler_steps, nbatches, nsteps, saved>>
    /\ UNCHANGED loopvars

\* Lines 746-759.
EncodeImageLatents ==
    /\ phase = "encode_image_latents"
    /\ \E l \in ImageLatentValues : loc' = [loc EXCEPT !.image_latents = l]
    /\ placement' = vae_encode(placement, scfg.force_upcast)
    /\ phase' = next_phase("encode_image_latents")
    /\ UNCHANGED <<scfg, params, optimizer_params, fps, optimizer_steps,
                   scheduler_steps, nbatches, nsteps, saved>>
    /\ UNCHANGED loopvars

\* Lines 766-775.
AddTimeIds ==
    /\ phase = "time_ids"
    /\ loc' = [loc EXCEPT !.added_time_ids =
                    get_add_time_ids(fps, motion_bucket_id, noise_aug_strength)]
    /\ phase' = next_phase("time_ids")
    /\ UNCHANGED <<scfg, params, optimizer_params, placement, fps, optimizer_steps,
                   scheduler_steps, nbatches, nsteps, saved>>
    /\ UNCHANGED loopvars

\* Lines 779-797.
EncodeVideo ==
    /\ phase = "encode_video"
    /\ \E l \in LatentValues :
          loc' = [loc EXCEPT !.latents = l,
                             !.negative_image_embeddings = zeros_like(loc.image_embeddings)]
    /\ phase' = next_phase("encode_video")
    /\ UNCHANGED <<scfg, params, optimizer_params, placement, fps, optimizer_steps,
                   scheduler_steps, nbatches, nsteps, saved>>
    /\ UNCHANGED loopvars

\* Lines 803-809.
SampleSigma ==
    /\ phase = "sample_sigma"
    /\ \E s \in SigmaValues :
          loc' = [loc EXCEPT !.sigma = s,
                             !.c_skip = edm_c_skip(s),
                             !.c_out = edm_c_out(s),
                             !.c_in = edm_c_in(s),
                             !.c_noise = edm_c_noise(s),
                             !.loss_weight = edm_loss_weight(s)]
    /\ phase' = next_phase("sample_sigma")
    /\ UNCHANGED <<scfg, params, optimizer_params, placement, fps, optimizer_steps,
                   scheduler_steps, nbatches, nsteps, saved>>
    /\ UNCHANGED loopvars

\* Lines 811-819.
AddNoise ==
    /\ phase = "noise"
    /\ \E n \in NoiseValues :
          LET noisy == RAdd(loc.latents, RMul(n, loc.sigma))
          IN  loc' = [loc EXCEPT !.noisy_latents = noisy,
                                 !.input_latents = <<RMul(loc.c_in, noisy), loc.image_latents>>,
                                 !.losses = <<>>]
    /\ phase' = next_phase("noise")
    /\ UNCHANGED <<scfg, params, optimizer_params, placement, fps, optimizer_steps,
                   scheduler_steps, nbatches, nsteps, saved>>
    /\ UNCHANGED loopvars

\* Lines 821-831: one turn of "for i in range(2)".
DenoiserPass ==
    /\ phase = "pass"
    /\ LET i == Len(loc.losses)
       IN  \E model_pred \in ModelOutputValues :
              LET ehs == encoder_hidden_states(i, loc.negative_image_embeddings,
                                               loc.image_embeddings)
                  predict_x0 == RAdd(RMul(loc.c_out, model_pred),
                                     RMul(loc.c_skip, loc.noisy_latents))
                  l == RMul(RSquare(RSub(predict_x0, loc.latents)), loc.loss_weight)
              IN  /\ loc' = [loc EXCEPT
                        !.calls = Append(@, [input_latents |-> loc.input_latents,
                                             c_noise |-> loc.c_noise,
                                             encoder_hidden_states |-> ehs,
                                             added_time_ids |-> loc.added_time_ids,
                                             model_pred |-> model_pred,
                                             predict_x0 |-> predict_x0]),
                        !.losses = Append(@, l)]
                  /\ phase' = IF i + 1 < 2 THEN "pass" ELSE next_phase("pass")
    /\ UNCHANGED <<scfg, params, optimizer_params, placement, fps, optimizer_steps,
                   scheduler_steps, nbatches, nsteps, saved>>
    /\ UNCHANGED loopvars

\* Line 833.
SumLoss ==
    /\ phase = "loss"
    /\ loc' = [loc EXCEPT !.loss = IF Len(loc.losses) = 1 THEN loc.losses[1]
                                   ELSE RAdd(loc.losses[1], loc.losses[2])]
    /\ phase' = next_phase("loss")
    /\ UNCHANGED <<scfg, params, optimizer_params, placement, fps, optimizer_steps,
                   scheduler_steps, nbatches, nsteps, saved>>
    /\ UNCHANGED loopvars

\* Lines 841-848.
Backpropagate ==
    /\ phase = "backward"
    /\ phase' = next_phase("backward")
    /\ UNCHANGED <<scfg, params, optimizer_params, placement, fps, loc, optimizer_steps,
                   scheduler_steps, nbatches, nsteps, saved>>
    /\ UNCHANGED loopvars

\* Line 850.
OptimizerStep ==
    /\ phase = "optimizer_step"
    /\ optimizer_steps' = optimizer_steps + 1
    /\ phase' = next_phase("optimizer_step")
    /\ UNCHANGED <<scfg, params, optimizer_params, placement, fps, loc,
                   scheduler_steps, nbatches, nsteps, saved>>
    /\ UNCHANGED loopvars

\* Lines 851-852.
SchedulerStep ==
    /\ phase = "scheduler_step"
    /\ scheduler_steps' = scheduler_steps + 1
    /\ phase' = next_phase("scheduler_step")
    /\ UNCHANGED <<scfg, params, optimizer_params, placement, fps, loc,
                   optimizer_steps, nbatches, nsteps, saved>>
    /\ UNCHANGED loopvars

\* Lines 854-856: an exception in the try block, then "continue".
StepFails ==
    /\ phase \in {"backward", "optimizer_step", "scheduler_step"}
    /\ phase' = "batch"
    /\ UNCHANGED <<scfg, params, optimizer_params, placement, fps, loc, optimizer_steps,
                   scheduler_steps, nbatches, nsteps, saved>>
    /\ UNCHANGED loopvars

\* Lines 859-863, with gradient_accumulation_steps = 1: every batch synchronises.
CountStep ==
    /\ phase = "count"
    /\ nsteps' = nsteps + 1
    /\ phase' = next_phase("count")
    /\ UNCHANGED <<scfg, params, optimizer_params, placement, fps, loc, optimizer_steps,
                   scheduler_steps, nbatches, saved>>
    /\ UNCHANGED loopvars

\* Lines 865-876.
Checkpoint ==
    /\ phase = "checkpoint"
    /\ IF should_checkpoint(nsteps, scfg.checkpointing_steps)
         THEN LET r == save_pipe(placement, TRUE)
              IN  /\ placement' = r.placement
                  /\ saved' = Append(saved, [global_step |-> nsteps, is_checkpoint |-> TRUE,
                                             pipeline |-> r.pipeline])
         ELSE UNCHANGED <<placement, saved>>
    /\ phase' = next_phase("checkpoint")
    /\ UNCHANGED <<scfg, params, optimizer_params, fps, loc, optimizer_steps,
                   scheduler_steps, nbatches, nsteps>>
    /\ UNCHANGED loopvars

\* The loop is over.
LeaveLoop ==
    /\ phase = "batch"
    /\ nbatches = MaxStepBatches
    /\ phase' = "final_save"
    /\ UNCHANGED <<scfg, params, optimizer_params, placement, fps, loc, optimizer_steps,
                   scheduler_steps, nbatches, nsteps, saved>>
    /\ UNCHANGED loopvars

\* Lines 921-934.
FinalSaveStep ==
    /\ phase = "final_save"
    /\ LET r == save_pipe(placement, FALSE)
       IN  /\ placement' = r.placement
           /\ saved' = Append(saved, [global_step |-> nsteps, is_checkpoint |-> FALSE,
                                      pipeline |-> r.pipeline])
    /\ phase' = "finished"
    /\ UNCHANGED <<scfg, params, optimizer_params, fps, loc, optimizer_steps,
                   scheduler_steps, nbatches, nsteps>>
    /\ UNCHANGED loopvars

StepNext ==
    \/ LoadModels
    \/ FreezeModels
    \/ InjectAdapters
    \/ CreateOptimizer
    \/ PrepareModels
    \/ TakeBatch
    \/ EncodeImage
    \/ EncodeImageLatents
    \/ AddTimeIds
    \/ EncodeVideo
    \/ SampleSigma
    \/ AddNoise
    \/ DenoiserPass
    \/ SumLoss
    \/ Backpropagate
    \/ OptimizerStep
    \/ SchedulerStep
    \/ StepFails
    \/ CountStep
    \/ Checkpoint
    \/ LeaveLoop
    \/ FinalSaveStep

\* ------------------------------------------------------ the specifications
\* Spec runs the loop of every process and leaves the step's data alone;
\* SpecStep runs the steps of one process and leaves the loop alone.
StepIdle ==
    /\ scfg = [mixed_precision |-> "no", force_upcast |-> FALSE, checkpointing_steps |-> 1]
    /\ phase = "idle"
    /\ params = {}
    /\ optimizer_params = {}
    /\ placement = LoadedPlacement
    /\ fps = 0
    /\ loc = NoLocals
    /\ optimizer_steps = 0
    /\ scheduler_steps = 0
    /\ nbatches = 0
    /\ nsteps = 0
    /\ saved = <<>>

LoopIdle ==
    /\ cfg = [procs |-> {"main"}, num_batches |-> 1, gradient_accumulation_steps |-> 1,
              max_train_steps |-> 0, checkpointing_steps |-> 1, validation_steps |-> 1,
              sample_preview |-> FALSE, resume_from_checkpoint |-> FALSE, resume_step |-> 0]
    /\ pc = [p \in Procs |-> "idle"]
    /\ epoch = [p \in Procs |-> 0]
    /\ step = [p \in Procs |-> 0]
    /\ acc_step = [p \in Procs |-> 0]
    /\ sync_gradients = [p \in Procs |-> TRUE]
    /\ global_step = [p \in Procs |-> 0]
    /\ ngather = [p \in Procs |-> 0]
    /\ checkpoints = [p \in Procs |-> <<>>]
    /\ samples = [p \in Procs |-> <<>>]
    /\ final_saves = [p \in Procs |-> 0]

Init == LoopInit /\ StepIdle

Next == LoopNext

Spec == Init /\ [][Next]_vars

InitStep == StepInit /\ LoopIdle

NextStep == StepNext

SpecStep == InitStep /\ [][NextStep]_vars

\* ------------------------------------------------------------ properties
Range(s) == {s[i] : i \in 1..Len(s)}

StrictlyIncreasing(s) == \A i \in 1..Len(s) : \A j \in 1..Len(s) : i < j => s[i] < s[j]

Last(s) == s[Len(s)]

\* The phases the training step is said to go through, in their order.
Rank(ph) ==
    CASE ph \in {"encode_image", "encode_image_latents", "time_ids"} -> 1
      [] ph = "encode_video" -> 2
      [] ph = "sample_sigma" -> 3
      [] ph = "noise" -> 4
      [] ph = "pass" -> 5
      [] ph = "loss" -> 6
      [] ph = "backward" -> 7
      [] ph = "optimizer_step" -> 8
      [] ph = "scheduler_step" -> 9

RankedPhases ==
    {"encode_image", "encode_image_latents", "time_ids", "encode_video", "sample_sigma",
     "noise", "pass", "loss", "backward", "optimizer_step", "scheduler_step"}

\* Each phase has its inputs from the phases before it.
PhaseInputsReady ==
    /\ loc.latents # NoneQ => loc.image_embeddings # NoneQ /\ loc.image_latents # NoneQ
    /\ loc.sigma # NoneQ => loc.latents # NoneQ
    /\ loc.noisy_latents # NoneQ => loc.sigma # NoneQ
    /\ loc.calls # <<>> => loc.noisy_latents # NoneQ
    /\ loc.loss # NoneQ => Len(loc.calls) = 2
    /\ phase \in {"backward", "optimizer_step", "scheduler_step", "count"}
          => loc.loss # NoneQ

PhaseStep ==
    /\ phase \in RankedPhases /\ phase' \in RankedPhases
          => Rank(phase') \in {Rank(phase), Rank(phase) + 1}
    /\ phase = "batch" /\ phase' # phase => phase' \in {"encode_image", "final_save"}
    /\ phase' = "count" /\ phase # phase' => phase = "scheduler_step"
    /\ optimizer_steps' # optimizer_steps => phase = "optimizer_step"
    /\ scheduler_steps' # scheduler_steps
          => phase = "scheduler_step" /\ phase' = "count"

\* C1: a training step goes through its phases in the order: encode the
\* conditioning image, encode the video clip, sample sigma, build the noisy
\* input, the two denoiser passes, the loss, backpropagation, the optimizer
\* step, the scheduler step; each phase starts from the one before it, has
\* that phase's results, and a step is counted only after the scheduler step.
C1_PhasesInOrder == [][PhaseStep]_vars /\ []PhaseInputsReady

C1_FullStepDone ==
    /\ phase = "count"
    /\ optimizer_steps >= 1 /\ scheduler_steps >= 1
    /\ Len(loc.calls) = 2 /\ loc.loss # NoneQ

\* The weighted loss of pass i: ((x0_i - latents)^2 * (sigma^2+1)/sigma^2).
WeightedLoss(i) ==
    RMul(RSquare(RSub(loc.calls[i].predict_x0, loc.latents)),
         RDiv(RAdd(RSquare(loc.sigma), FromInt(1)), RSquare(loc.sigma)))

SetupPhases == {"idle", "load", "freeze", "inject"}

\* C3: once the models are frozen and the adapters injected, every parameter
\* of the vae, of the image encoder and of the base denoiser is frozen, and
\* the trainable parameters are the adapter matrices of the denoiser's
\* attention projections, at every later point of the run.
C3_OnlyAdaptersTrainable ==
    phase \notin SetupPhases =>
        /\ \A q \in params :
              q.requires_grad <=>
                  (q.model = "unet" /\ IsLora(q) /\ IsAttentionProjection(q.module))
        /\ \A q \in params : q.model \in {"vae", "image_encoder"} => ~q.requires_grad
        /\ \E q \in params : q.requires_grad

C3_TrainingWithAdapters ==
    /\ phase = "checkpoint"
    /\ nsteps >= 2
    /\ \E q \in params : q.requires_grad
    /\ \E q \in params : q.model = "unet" /\ ~q.requires_grad

OptimizerBuilt == phase \notin (SetupPhases \cup {"optimizer"})

\* C4 as stated: the optimizer is constructed over exactly the adapter
\* parameters and holds no frozen base parameter of the denoiser.
C4_OptimizerOnlyAdapters ==
    OptimizerBuilt => optimizer_params = only_lora_parameters(params)

\* C4 amended: the optimizer is constructed over all parameters of the
\* adapter-wrapped denoiser, the frozen base parameters included; the ones
\* among them that require gradients are exactly the adapter parameters.
C4_OptimizerAllDenoiserParameters ==
    OptimizerBuilt =>
        /\ optimizer_params = {q \in params : q.model = "unet"}
        /\ {q \in optimizer_params : q.requires_grad} = only_lora_parameters(params)
        /\ \E q \in optimizer_params : ~IsLora(q) /\ ~q.requires_grad

C4_OptimizerConstructed ==
    /\ phase = "prepare"
    /\ \E q \in optimizer_params : IsLora(q)

IsCheckpointStep(g) == g >= 1 /\ g % cfg.checkpointing_steps = 0

CheckpointsKept ==
    \A p \in Procs :
        /\ StrictlyIncreasing(checkpoints[p])
        /\ Range(checkpoints[p]) = {g \in 1..global_step[p] : IsCheckpointStep(g)}

CheckpointStep ==
    \A p \in Procs :
        /\ checkpoints'[p] # checkpoints[p] =>
              /\ global_step'[p] = global_step[p] + 1
              /\ checkpoints'[p] = Append(checkpoints[p], global_step'[p])
        /\ global_step'[p] # global_step[p] =>
              /\ global_step'[p] = global_step[p] + 1
              /\ IsCheckpointStep(global_step'[p]) => checkpoints'[p] # checkpoints[p]

\* C5: a process saves a checkpoint at global step g exactly when g has just
\* been incremented and is a multiple of checkpointing_steps: one save per
\* such g, none at another g, none at g = 0.
C5_CheckpointIffMultiple == [][CheckpointStep]_vars /\ []CheckpointsKept

C5_SavedAndSkipped ==
    \E p \in Procs :
        /\ checkpoints[p] # <<>>
        /\ global_step[p] > Len(checkpoints[p])
        /\ cfg.gradient_accumulation_steps > 1

IsSampleStep(g) ==
    cfg.sample_preview /\ (g = 1 \/ g % cfg.validation_steps = 0)

SamplesKept ==
    \A p \in Procs :
        /\ StrictlyIncreasing(samples[p])
        /\ ~is_main_process(p) => samples[p] = <<>>
        /\ is_main_process(p) =>
              Range(samples[p]) = {g \in 1..global_step[p] : IsSampleStep(g)}

SampleStep ==
    \A p \in Procs :
        samples'[p] # samples[p] =>
            /\ global_step'[p] = global_step[p] + 1
            /\ samples'[p] = Append(samples[p], global_step'[p])

\* C6: a validation video is generated right after global_step becomes g
\* exactly when sample_preview holds and g is 1 or a multiple of
\* validation_steps; only the main process generates, once per g.
C6_SampleIffDue == [][SampleStep]_vars /\ []SamplesKept

C6_SampledFirstAndMultiple ==
    /\ cfg.validation_steps = 2
    /\ samples["main"] = <<1, 2>>
    /\ global_step["main"] = 3

Models == {"unet", "image_encoder", "vae"}

CheckpointSaveStep ==
    (phase = "checkpoint" /\ saved' # saved) =>
        /\ placement'.dtype = placement.dtype
        /\ \A m \in Models : placement'.device[m] = AcceleratorDevice
        /\ Last(saved').is_checkpoint
        /\ \A m \in Models : Last(saved').pipeline[m] = "float32"

\* C7: a checkpoint save returns with the denoiser, the image encoder and the
\* vae in the dtype they had on entry and on the accelerator device, and the
\* pipeline it serialized is float32.
C7_PrecisionRoundTrip == [][CheckpointSaveStep]_vars

C7_HalfPrecisionKept ==
    /\ phase = "batch"
    /\ saved # <<>>
    /\ Last(saved).is_checkpoint
    /\ Last(saved).pipeline.vae = "float32"
    /\ placement.dtype.vae = "float16"
    /\ placement.dtype.unet = "float32"

SigmaSquaredPlusOne == RAdd(RSquare(loc.sigma), FromInt(1))

\* C8: the preconditioning is a function of sigma alone: c_skip = 1/(sigma^2+1),
\* c_out = -sigma/sqrt(sigma^2+1), c_in = 1/sqrt(sigma^2+1), c_noise = ln(sigma)/4,
\* loss weight (sigma^2+1)/sigma^2; the denoiser is given c_in * noisy latents
\* and the predicted clean latent is c_out * model output + c_skip * noisy latents.
C8_Preconditioning ==
    loc.sigma # NoneQ =>
        /\ RMul(loc.c_skip, SigmaSquaredPlusOne) = FromInt(1)
        /\ RMul(RSquare(loc.c_in), SigmaSquaredPlusOne) = FromInt(1)
        /\ loc.c_in[1] > 0
        /\ loc.c_out = RNeg(RMul(loc.sigma, loc.c_in))
        /\ loc.c_noise = [log_of |-> loc.sigma, over |-> 4]
        /\ RMul(loc.loss_weight, RSquare(loc.sigma)) = SigmaSquaredPlusOne
        /\ loc.input_latents # <<>> =>
              loc.input_latents[1] = RMul(loc.c_in, loc.noisy_latents)
        /\ \A i \in 1..Len(loc.calls) :
              loc.calls[i].predict_x0 =
                  RAdd(RMul(loc.c_out, loc.calls[i].model_pred),
                       RMul(loc.c_skip, loc.noisy_latents))

C8_Preconditioned ==
    /\ Len(loc.calls) = 2
    /\ loc.sigma = Rat(3, 4)
    /\ loc.c_out = Rat(-3, 5)
    /\ loc.calls[2].model_pred = FromInt(1)

LoopLeft(p) == pc[p] \in {"wait", "final_save", "end_training", "done"}

\* C9: when the training loop ends, global_step equals max_train_steps,
\* whatever the dataset length, the accumulation, the resume setting and the
\* batches that failed.
C9_TotalSteps ==
    \A p \in Procs : LoopLeft(p) => global_step[p] = cfg.max_train_steps

\* C10: in every training step the fps of the added time ids is the
\* configured fps minus one.
C10_FpsMinusOne ==
    loc.added_time_ids # <<>> => loc.added_time_ids[1] = FromInt(InitialFps - 1)

GlobalStepInRange ==
    \A p \in Procs : 0 <= global_step[p] /\ global_step[p] <= cfg.max_train_steps

NoStepPastMax ==
    \A p \in Procs :
        global_step[p] >= cfg.max_train_steps => global_step'[p] = global_step[p]

\* C11: 0 <= global_step <= max_train_steps in every state of the loop; the
\* stop check breaks only the batch loop and the epoch loop goes on, yet no
\* step is counted once global_step has reached max_train_steps.
C11_GlobalStepBounded == []GlobalStepInRange /\ [][NoStepPastMax]_vars

C11_StoppedAtMax ==
    \E p \in Procs :
        /\ pc[p] = "wait"
        /\ global_step[p] = cfg.max_train_steps
        /\ cfg.max_train_steps >= 2
        /\ cfg.gradient_accumulation_steps >= 2
        /\ cfg.num_batches >= 2

Finished == \A p \in cfg.procs : pc[p] = "done"

FinalSaveOnce ==
    /\ \A p \in Procs : final_saves[p] <= 1
    /\ \A p \in Procs : ~is_main_process(p) => final_saves[p] = 0
    /\ \A p \in cfg.procs :
          is_main_process(p) /\ pc[p] \in {"end_training", "done"} => final_saves[p] = 1
    /\ \A p \in cfg.procs :
          final_saves[p] = 1 => \A q \in cfg.procs : LoopLeft(q)

\* C12: the training loop terminates for every dataset and max_train_steps,
\* failed batches included: no process stops before end_training has run;
\* the final save runs exactly once, on the main process, after every
\* process has left its loop, and end_training follows it.
C12_TerminatesWithFinalSave ==
    /\ Finished \/ ENABLED Next
    /\ FinalSaveOnce

\* The same of a launch of one process.
C12_OneProcessTerminates ==
    cfg.procs = {"main"} => C12_TerminatesWithFinalSave

\* What a process may do on leaving line 840: go on to lines 859-918 with the
\* step not yet counted, or, the try block having raised, take the next batch
\* of the same epoch with nothing counted, saved or sampled.
AfterTryBlock ==
    \A p \in Procs :
        (pc[p] = "backward" /\ pc'[p] # "backward") =>
            /\ global_step'[p] = global_step[p]
            /\ checkpoints'[p] = checkpoints[p]
            /\ samples'[p] = samples[p]
            /\ epoch'[p] = epoch[p]
            /\ \/ pc'[p] = "post" /\ step'[p] = step[p]
               \/ pc'[p] = "fetch" /\ step'[p] = step[p] + 1

\* C13: when the try block of a training step raises, the loop goes on with
\* the next batch of the epoch: global_step is unchanged, no checkpoint is
\* saved, no sample is generated, and the loop is not left by the stop check.
C13_FailedBatchSkipped == [][AfterTryBlock]_vars

\* A step that would have counted, saved and sampled has failed; the process
\* is at the next batch and none of the three has happened.
C13_BatchFailed ==
    \E p \in Procs :
        /\ pc[p] = "fetch"
        /\ epoch[p] = 0
        /\ step[p] = 1
        /\ ngather[p] = 1
        /\ sync_gradients[p]
        /\ global_step[p] = 0
        /\ checkpoints[p] = <<>>
        /\ samples[p] = <<>>
        /\ cfg.max_train_steps = 1
        /\ cfg.checkpointing_steps = 1
        /\ cfg.validation_steps = 1
        /\ cfg.sample_preview
        /\ cfg.num_batches = 2
        /\ ~cfg.resume_from_checkpoint

====
